---- MODULE Spec2Model ----
(***************************************************************************)
(* The Ink lexer, pkg/ink/lexer.go: Tokenize reads runes from a buffered   *)
(* reader and sends tokens on a channel which it closes on return.         *)
(*                                                                         *)
(* A rune is a string: an ASCII rune is the one-character string, and      *)
(* "U+00E9" stands for a rune whose UTF-8 encoding is two bytes long.  A   *)
(* Go string (buf, strbuf, Tok.str) is the sequence of its runes.          *)
(* The closures of Tokenize are operators on the record of its locals;     *)
(* one action per case of the switch of the main loop installs the result. *)
(***************************************************************************)
EXTENDS Integers, Sequences, FiniteSets, TLC

VARIABLES
    input,            \* the runes the reader delivers before it fails (EOF)
    fatalError,       \* parameter fatalError
    pc,               \* "start", "scan", "closing", "done", "exit"
    pos,              \* runes consumed from the reader
    buf,              \* var buf string
    strbuf,           \* var strbuf string
    strbufStartLine,
    strbufStartCol,
    lastKind,
    lineNo,
    colNo,
    inStringLiteral,
    emitted,          \* tokens passed to simpleCommit, in order
    sent,             \* how many of them the consumer has received
    closes,           \* times close(tokens) has run
    diag,             \* calls of LogErr / LogSafeErr
    bufAt,            \* history: index in input of the first rune of buf
    strbufAt,         \* history: index in input of the opening quote
    charAt,           \* history: index in input of the rune being dispatched
    prov              \* history: for each emitted token, where it came from

vars == <<input, fatalError, pc, pos, buf, strbuf, strbufStartLine,
          strbufStartCol, lastKind, lineNo, colNo, inStringLiteral,
          emitted, sent, closes, diag, bufAt, strbufAt, charAt, prov>>

-----------------------------------------------------------------------------
(* Bounds of the model *)

\* free inputs are concatenations of at most MaxChunks chunks of Alphabet,
MaxChunks == 2

\* or of at most MaxCoreChunks chunks of CoreAlphabet
MaxCoreChunks == 4

\* under fairness, of at most MaxLiveChunks chunks of LiveAlphabet
MaxLiveChunks == 2

-----------------------------------------------------------------------------
(* Runes *)

EAcute == "U+00E9"

\* the backtick, written by its code point
BackQuote == "U+0060"

\* ARABIC-INDIC DIGIT THREE, a decimal digit (category Nd) whose UTF-8
\* encoding is the two bytes D9 A3
ArabicDigit == "U+0663"

\* the ASCII digits
Digits == {"0", "1", "2", "3", "4", "5", "6", "7", "8", "9"}

\* unicode.IsDigit: the decimal digits of every script
IsDigit(c) == c \in Digits \cup {ArabicDigit}

IsSpace(c) == c \in {" ", "\t", "\r", "\n"}

\* bytes of the UTF-8 encoding of a rune
Utf8Len(c) == IF c \in {EAcute, ArabicDigit} THEN 2 ELSE 1

\* rune(cbuf[0]): the first byte of the text taken for a code point.  The
\* first byte of a two-byte encoding is C3 for U+00E9 and D9 for U+0663.
FirstByte(str) ==
    CASE str[1] = EAcute -> "U+00C3"
      [] str[1] = ArabicDigit -> "U+00D9"
      [] OTHER -> str[1]

RECURSIVE len(_)
\* Go's len of a string: its length in bytes
len(str) == IF str = <<>> THEN 0 ELSE Utf8Len(Head(str)) + len(Tail(str))

-----------------------------------------------------------------------------
(* Kinds and tokens *)

Kinds ==
    {"Separator", "UnaryExpr", "BinaryExpr", "MatchExpr", "MatchClause",
     "Identifier", "EmptyIdentifier", "FunctionCall", "NumberLiteral",
     "StringLiteral", "ObjectLiteral", "ListLiteral", "FunctionLiteral",
     "TrueLiteral", "FalseLiteral", "AccessorOp", "EqualOp", "FunctionArrow",
     "KeyValueSeparator", "DefineOp", "MatchColon", "CaseArrow", "SubtractOp",
     "NegationOp", "AddOp", "MultiplyOp", "DivideOp", "ModulusOp",
     "GreaterThanOp", "LessThanOp", "LogicalAndOp", "LogicalOrOp",
     "LogicalXorOp", "LeftParen", "RightParen", "LeftBracket", "RightBracket",
     "LeftBrace", "RightBrace"}

\* the table without its first entry
Continuation_noSeparator ==
    {"LeftParen", "LeftBracket", "LeftBrace",
     "AddOp", "SubtractOp", "MultiplyOp", "DivideOp", "ModulusOp", "NegationOp",
     "GreaterThanOp", "LessThanOp", "EqualOp", "DefineOp", "AccessorOp",
     "KeyValueSeparator", "FunctionArrow", "MatchColon", "CaseArrow"}

\* the table without AddOp
Continuation_noAddOp ==
    {"Separator", "LeftParen", "LeftBracket", "LeftBrace",
     "SubtractOp", "MultiplyOp", "DivideOp", "ModulusOp", "NegationOp",
     "GreaterThanOp", "LessThanOp", "EqualOp", "DefineOp", "AccessorOp",
     "KeyValueSeparator", "FunctionArrow", "MatchColon", "CaseArrow"}

\* the kinds after which ensureSeparator emits nothing
Continuation ==
    {"Separator", "LeftParen", "LeftBracket", "LeftBrace",
     "AddOp", "SubtractOp", "MultiplyOp", "DivideOp", "ModulusOp", "NegationOp",
     "GreaterThanOp", "LessThanOp", "EqualOp", "DefineOp", "AccessorOp",
     "KeyValueSeparator", "FunctionArrow", "MatchColon", "CaseArrow"}

\* a float64 that is a decimal fraction: m / 10^e, with no trailing zero
\* digit kept in the fraction
Float(m, e) == [m |-> m, e |-> e]

Zero == Float(0, 0)

Tok(kind, str, num, line, col) ==
    [kind |-> kind, str |-> str, num |-> num, line |-> line, col |-> col]

\* history record of one emitted token: the closure that built it, the index
\* in the input of its first rune (0 when it stands for no rune), and the
\* accumulator text it was made from
Prov(via, at, text) == [via |-> via, at |-> at, text |-> text]

-----------------------------------------------------------------------------
(* strconv.ParseFloat, on the texts commitClear passes to it *)

RECURSIVE DigitsValue(_, _)
DigitsValue(str, acc) ==
    IF str = <<>> THEN acc
    ELSE DigitsValue(Tail(str),
                     10 * acc + (CHOOSE d \in 0..9 : ToString(d) = Head(str)))

RECURSIVE Normalize(_, _)
Normalize(m, e) ==
    IF e > 0 /\ m % 10 = 0 THEN Normalize(m \div 10, e - 1) ELSE Float(m, e)

\* the index of the first "." of str, 0 when there is none
DotIndex(str) ==
    IF \E i \in 1..Len(str) : str[i] = "."
    THEN CHOOSE i \in 1..Len(str) :
             str[i] = "." /\ \A j \in 1..(i - 1) : str[j] # "."
    ELSE 0

\* decimal texts: digits, then optionally "." and digits (either side of the
\* "." may be empty, not both).  Every other text is a syntax error, with
\* value 0.  The exponent, hexadecimal, infinity and NaN forms need runes
\* (e, x, p, i, n next to digits) that the inputs of this model do not give.
ParseFloat(str) ==
    LET d    == DotIndex(str)
        int  == IF d = 0 THEN str ELSE SubSeq(str, 1, d - 1)
        frac == IF d = 0 THEN <<>> ELSE SubSeq(str, d + 1, Len(str))
        ok   == /\ \A i \in 1..Len(int) : int[i] \in Digits
                /\ \A i \in 1..Len(frac) : frac[i] \in Digits
                /\ Len(int) + Len(frac) > 0
    IN  IF ok
        THEN [f |-> Normalize(DigitsValue(int \o frac, 0), Len(frac)),
              err |-> FALSE]
        ELSE [f |-> Zero, err |-> TRUE]

-----------------------------------------------------------------------------
(* The locals of one call of Tokenize, as a record *)

Cur ==
    [input |-> input, fatalError |-> fatalError, pc |-> pc, pos |-> pos,
     buf |-> buf, strbuf |-> strbuf, strbufStartLine |-> strbufStartLine,
     strbufStartCol |-> strbufStartCol, lastKind |-> lastKind,
     lineNo |-> lineNo, colNo |-> colNo,
     inStringLiteral |-> inStringLiteral, emitted |-> emitted,
     closes |-> closes, diag |-> diag, bufAt |-> bufAt,
     strbufAt |-> strbufAt, charAt |-> charAt, prov |-> prov]

Install(s) ==
    /\ input' = s.input
    /\ fatalError' = s.fatalError
    /\ pc' = s.pc
    /\ pos' = s.pos
    /\ buf' = s.buf
    /\ strbuf' = s.strbuf
    /\ strbufStartLine' = s.strbufStartLine
    /\ strbufStartCol' = s.strbufStartCol
    /\ lastKind' = s.lastKind
    /\ lineNo' = s.lineNo
    /\ colNo' = s.colNo
    /\ inStringLiteral' = s.inStringLiteral
    /\ emitted' = s.emitted
    /\ closes' = s.closes
    /\ diag' = s.diag
    /\ bufAt' = s.bufAt
    /\ strbufAt' = s.strbufAt
    /\ charAt' = s.charAt
    /\ prov' = s.prov
    /\ UNCHANGED sent

\* a step of Tokenize that ends in state s
Step(s) == \E r \in {s} : Install(r)

\* F applied to the value of s, which is computed once
Then(s, F(_)) == CHOOSE r \in {F(x) : x \in {s}} : TRUE

\* the state at entry of Tokenize(unbuffered, tokens, fatalError, _)
Entry(in, fe) ==
    [input |-> in, fatalError |-> fe, pc |-> "start", pos |-> 0,
     buf |-> <<>>, strbuf |-> <<>>, strbufStartLine |-> 0,
     strbufStartCol |-> 0, lastKind |-> "Separator",
     lineNo |-> 1, colNo |-> 1,
     inStringLiteral |-> FALSE, emitted |-> <<>>,
     closes |-> 0, diag |-> <<>>, bufAt |-> 0, strbufAt |-> 0,
     charAt |-> 0, prov |-> <<>>]

-----------------------------------------------------------------------------
(* bufio.Reader *)

NoRune == "U+0000"

\* buffered.ReadRune(): the next rune, or an error once the input is spent
ReadRune(s) ==
    IF s.pos < Len(s.input)
    THEN [c |-> s.input[s.pos + 1], err |-> FALSE,
          s |-> [s EXCEPT !.pos = @ + 1]]
    ELSE [c |-> NoRune, err |-> TRUE, s |-> s]

\* buffered.UnreadRune() after a successful ReadRune
UnreadRune(s) == [s EXCEPT !.pos = @ - 1]

-----------------------------------------------------------------------------
(* The logger (log.go, not part of the sources at hand) *)

Diag(path, line, col) == [path |-> path, line |-> line, col |-> col]

\* LogErr reports and ends the process
LogErr(s) ==
    [s EXCEPT !.diag = Append(@, Diag("fatal", s.lineNo, s.colNo)),
              !.pc = "exit"]

\* LogSafeErr reports and returns
LogSafeErr(s) ==
    [s EXCEPT !.diag = Append(@, Diag("safe", s.lineNo, s.colNo))]

-----------------------------------------------------------------------------
(* The closures of Tokenize *)

\* tokens <- tok.  Nothing is sent once LogErr has ended the process.
simpleCommit(s, tok, g) ==
    IF s.pc = "exit" THEN s
    ELSE [s EXCEPT !.lastKind = tok.kind,
                   !.emitted = Append(@, tok),
                   !.prov = Append(@, g)]

simpleCommitChar(s, kind, g) ==
    simpleCommit(s, Tok(kind, <<>>, Zero, s.lineNo, s.colNo), g)

TrueText == <<"t", "r", "u", "e">>

\* the case label misspelt
FalseText_misspelt == <<"f", "a", "l", "s">>

FalseText == <<"f", "a", "l", "s", "e">>

\* commitClear once buf is known not to be empty
flush(s) ==
    LET cbuf == s.buf
        s1   == [s EXCEPT !.buf = <<>>]
        g    == Prov("commitClear", s.bufAt, cbuf)
    IN  IF cbuf = TrueText THEN simpleCommitChar(s1, "TrueLiteral", g)
        ELSE IF cbuf = FalseText
        THEN simpleCommitChar(s1, "FalseLiteral", g)
        ELSE IF IsDigit(FirstByte(cbuf))
        THEN LET r  == ParseFloat(cbuf)
                 s2 == IF r.err
                       THEN IF s1.fatalError THEN LogErr(s1)
                            ELSE LogSafeErr(s1)
                       ELSE s1
             IN  simpleCommit(s2,
                     Tok("NumberLiteral", <<>>, r.f,
                         s.lineNo, s.colNo - len(cbuf)), g)
        ELSE simpleCommit(s1,
                 Tok("Identifier", cbuf, Zero,
                     s.lineNo, s.colNo - len(cbuf)), g)

\* a return after the non-fatal report: the number that failed to parse is
\* dropped
commitClear_dropsBadNumber(s) ==
    IF s.buf = <<>> THEN s
    ELSE IF IsDigit(FirstByte(s.buf)) /\ ParseFloat(s.buf).err
            /\ ~s.fatalError
    THEN LogSafeErr([s EXCEPT !.buf = <<>>])
    ELSE flush(s)

commitClear(s) == IF s.buf = <<>> THEN s ELSE flush(s)

commit(s, tok, g) ==
    Then(commitClear(s), LAMBDA s1 : simpleCommit(s1, tok, g))

commitChar(s, kind, g) ==
    Then(s, LAMBDA s0 :
        commit(s0, Tok(kind, <<>>, Zero, s0.lineNo, s0.colNo), g))

ensureSeparator(s) ==
    Then(commitClear(s), LAMBDA s1 :
        IF s1.lastKind \in Continuation THEN s1
        ELSE commitChar(s1, "Separator", Prov("ensureSeparator", 0, <<>>)))

\* history of a token built for the rune being dispatched
Here(s) == Prov("char", s.charAt, <<>>)

-----------------------------------------------------------------------------
(* The shebang prefix and the comment loops *)

RECURSIVE SkipLine(_)
\* the loop that reads until it has read a newline or the read fails
SkipLine(s) ==
    LET r == ReadRune(s)
    IN  IF r.err THEN s
        ELSE IF r.c = "\n" THEN r.s
        ELSE SkipLine(r.s)

\* Peek(2) gives the bytes of # and !, each one rune
IsShebang(s) ==
    Len(s.input) >= 2 /\ s.input[1] = "#" /\ s.input[2] = "!"

\* the lineNo++ after the loop left out
shebang_keepsLine(s) ==
    LET s1 == IF IsShebang(s) THEN SkipLine(s) ELSE s
    IN  [s1 EXCEPT !.pc = "scan"]

shebang(s) ==
    LET s1 == IF IsShebang(s)
              THEN [SkipLine(s) EXCEPT !.lineNo = @ + 1]
              ELSE s
    IN  [s1 EXCEPT !.pc = "scan"]

RECURSIVE SkipBlock(_)
\* the loop that reads until it has read a backtick or the read fails; every
\* rune it reads advances colNo, a newline first advances lineNo
SkipBlock(s) ==
    LET r  == ReadRune(s)
        s1 == IF r.c = "\n"
              THEN [r.s EXCEPT !.lineNo = @ + 1, !.colNo = 0]
              ELSE r.s
        s2 == [s1 EXCEPT !.colNo = @ + 1]
    IN  IF r.err THEN s
        ELSE IF r.c = BackQuote THEN s2
        ELSE SkipBlock(s2)

-----------------------------------------------------------------------------
(* The cases of the switch of the main loop; s is the state after the rune  *)
(* was read, and a break out of the switch returns the state as it stands  *)

caseQuote(s) ==
    LET s1 == IF s.inStringLiteral
              THEN commit(s,
                       Tok("StringLiteral", s.strbuf, Zero,
                           s.strbufStartLine, s.strbufStartCol),
                       Prov("char", s.strbufAt, <<>>))
              ELSE [s EXCEPT !.strbuf = <<>>,
                             !.strbufStartLine = s.lineNo,
                             !.strbufStartCol = s.colNo,
                             !.strbufAt = s.charAt]
    IN  [s1 EXCEPT !.inStringLiteral = ~ s.inStringLiteral]

\* the backslash taken for an ordinary rune of the string
caseInString_noEscape(s, char) ==
    IF char = "\n"
    THEN [s EXCEPT !.lineNo = @ + 1, !.colNo = 0,
                   !.strbuf = Append(@, char)]
    ELSE [s EXCEPT !.strbuf = Append(@, char)]

caseInString(s, char) ==
    IF char = "\n"
    THEN [s EXCEPT !.lineNo = @ + 1, !.colNo = 0,
                   !.strbuf = Append(@, char)]
    ELSE IF char = "\\"
    THEN LET r == ReadRune(s)
         IN  IF r.err THEN s
             ELSE [r.s EXCEPT !.strbuf = Append(@, r.c), !.colNo = @ + 1]
    ELSE [s EXCEPT !.strbuf = Append(@, char)]

caseBacktick(s) ==
    LET r == ReadRune(s)
    IN  IF r.err THEN s
        ELSE IF r.c = BackQuote
        THEN Then(ensureSeparator(SkipLine(r.s)), LAMBDA s1 :
                 [s1 EXCEPT !.lineNo = @ + 1, !.colNo = 0])
        ELSE SkipBlock(r.s)

\* the line break passed over as white space is
caseNewline_noSeparator(s) ==
    Then(commitClear(s), LAMBDA s1 :
        [s1 EXCEPT !.lineNo = @ + 1, !.colNo = 0])

caseNewline(s) ==
    Then(ensureSeparator(s), LAMBDA s1 :
        [s1 EXCEPT !.lineNo = @ + 1, !.colNo = 0])

\* white space taken for a line break
caseSpace_separates(s) == ensureSeparator(s)

caseSpace(s) == commitClear(s)

\* the underscore and the one-rune operators, the comma among them
SingleKind(char) ==
    CASE char = "_" -> "EmptyIdentifier"
      [] char = "~" -> "NegationOp"
      [] char = "+" -> "AddOp"
      [] char = "*" -> "MultiplyOp"
      [] char = "/" -> "DivideOp"
      [] char = "%" -> "ModulusOp"
      [] char = "&" -> "LogicalAndOp"
      [] char = "|" -> "LogicalOrOp"
      [] char = "^" -> "LogicalXorOp"
      [] char = "<" -> "LessThanOp"
      [] char = ">" -> "GreaterThanOp"
      [] char = "," -> "Separator"

\* the case of the underscore left out: it falls to the default case
SingleRunes_noUnderscore ==
    {"~", "+", "*", "/", "%", "&", "|", "^", "<", ">", ","}

SingleRunes == {"_", "~", "+", "*", "/", "%", "&", "|", "^", "<", ">", ","}

caseSingle(s, char) == commitChar(s, SingleKind(char), Here(s))

\* an earlier point in the accumulator overlooked
caseDot_secondPoint(s) ==
    IF \E i \in 1..Len(s.buf) : ~IsDigit(s.buf[i]) /\ s.buf[i] # "."
    THEN commitChar(s, "AccessorOp", Here(s))
    ELSE IF s.buf = <<>>
    THEN commitChar(s, "AccessorOp", Here(s))
    ELSE [s EXCEPT !.buf = Append(@, ".")]

caseDot(s) ==
    IF \E i \in 1..Len(s.buf) : ~IsDigit(s.buf[i])
    THEN commitChar(s, "AccessorOp", Here(s))
    ELSE IF s.buf = <<>>
    THEN commitChar(s, "AccessorOp", Here(s))
    ELSE [s EXCEPT !.buf = Append(@, ".")]

caseColon(s) ==
    LET r  == ReadRune(s)
        s1 == [r.s EXCEPT !.colNo = @ + 1]
    IN  IF r.err THEN s
        ELSE IF r.c = "=" THEN commitChar(s1, "DefineOp", Here(s1))
        ELSE IF r.c = ":" THEN commitChar(s1, "MatchColon", Here(s1))
        ELSE Then(commitChar(ensureSeparator(s1), "KeyValueSeparator",
                             Here(s1)),
                  UnreadRune)

caseEqual(s) ==
    LET r  == ReadRune(s)
        s1 == [r.s EXCEPT !.colNo = @ + 1]
    IN  IF r.err THEN s
        ELSE IF r.c = ">" THEN commitChar(s1, "FunctionArrow", Here(s1))
        ELSE Then(commitChar(s1, "EqualOp", Here(s1)), UnreadRune)

caseMinus(s) ==
    LET r  == ReadRune(s)
        s1 == [r.s EXCEPT !.colNo = @ + 1]
    IN  IF r.err THEN s
        ELSE IF r.c = ">" THEN commitChar(s1, "CaseArrow", Here(s1))
        ELSE Then(commitChar(s1, "SubtractOp", Here(s1)), UnreadRune)

OpenKind(char) ==
    CASE char = "(" -> "LeftParen"
      [] char = "[" -> "LeftBracket"
      [] char = "{" -> "LeftBrace"

CloseKind(char) ==
    CASE char = ")" -> "RightParen"
      [] char = "]" -> "RightBracket"
      [] char = "}" -> "RightBrace"

caseOpen(s, char) == commitChar(s, OpenKind(char), Here(s))

\* the bracket emitted before the Separator
caseClose_bracketFirst(s, char) ==
    ensureSeparator(commitChar(s, CloseKind(char), Here(s)))

caseClose(s, char) ==
    commitChar(ensureSeparator(s), CloseKind(char), Here(s))

caseDefault(s, char) ==
    [s EXCEPT !.buf = Append(@, char),
              !.bufAt = IF s.buf = <<>> THEN s.charAt ELSE @]

\* which case of the switch takes char, the cases tried in source order
Case(s, char) ==
    IF char = "'" THEN "quote"
    ELSE IF s.inStringLiteral THEN "string"
    ELSE IF char = BackQuote THEN "backtick"
    ELSE IF char = "\n" THEN "newline"
    ELSE IF IsSpace(char) THEN "space"
    ELSE IF char \in SingleRunes THEN "single"
    ELSE IF char = "." THEN "dot"
    ELSE IF char = ":" THEN "colon"
    ELSE IF char = "=" THEN "equal"
    ELSE IF char = "-" THEN "minus"
    ELSE IF char \in {"(", "[", "{"} THEN "open"
    ELSE IF char \in {")", "]", "}"} THEN "close"
    ELSE "default"

Switch(s, char) ==
    LET k == Case(s, char)
    IN  CASE k = "quote" -> caseQuote(s)
          [] k = "string" -> caseInString(s, char)
          [] k = "backtick" -> caseBacktick(s)
          [] k = "newline" -> caseNewline(s)
          [] k = "space" -> caseSpace(s)
          [] k = "single" -> caseSingle(s, char)
          [] k = "dot" -> caseDot(s)
          [] k = "colon" -> caseColon(s)
          [] k = "equal" -> caseEqual(s)
          [] k = "minus" -> caseMinus(s)
          [] k = "open" -> caseOpen(s, char)
          [] k = "close" -> caseClose(s, char)
          [] k = "default" -> caseDefault(s, char)

\* char, _, err := buffered.ReadRune() succeeded: the rune is dispatched
Fetch(s) == LET r == ReadRune(s).s IN [r EXCEPT !.charAt = r.pos]

\* the colNo++ that ends an iteration
EndIteration(s) == IF s.pc = "exit" THEN s ELSE [s EXCEPT !.colNo = @ + 1]

\* the loop is left on a read error: the final ensureSeparator()
\* the accumulator flushed, the terminating Separator left out
finalSeparator_flushOnly(s) ==
    Then(commitClear(s), LAMBDA r :
        IF r.pc = "exit" THEN r ELSE [r EXCEPT !.pc = "closing"])

finalSeparator(s) ==
    Then(ensureSeparator(s), LAMBDA r :
        IF r.pc = "exit" THEN r ELSE [r EXCEPT !.pc = "closing"])

\* the defer left out: Tokenize returns with the channel open
deferClose_forgotten(s) == [s EXCEPT !.pc = "done"]

\* defer close(tokens)
deferClose(s) == [s EXCEPT !.closes = @ + 1, !.pc = "done"]

\* one iteration of the main loop
Iterate(s) ==
    IF ReadRune(s).err THEN finalSeparator(s)
    ELSE Then(Fetch(s), LAMBDA s0 :
             Then(Switch(s0, s.input[s.pos + 1]), EndIteration))

RECURSIVE RunFrom(_)
\* Tokenize run to its end with a consumer that receives every token
RunFrom(s) ==
    IF s.pc = "start" THEN Then(shebang(s), RunFrom)
    ELSE IF s.pc = "scan" THEN Then(Iterate(s), RunFrom)
    ELSE IF s.pc = "closing" THEN deferClose(s)
    ELSE s

Run(in, fe) == RunFrom(Entry(in, fe))

-----------------------------------------------------------------------------
(* Inputs *)

Alphabet ==
    {<<"a">>, <<"1">>, <<".">>, <<"'">>, <<"\\">>, <<BackQuote>>, <<"\n">>,
     <<" ">>, <<"_">>, <<",">>, <<":">>, <<"=">>, <<">">>, <<"(">>,
     <<")">>, <<"+">>, <<"&">>, <<EAcute>>, <<ArabicDigit>>,
     <<"t", "r", "u", "e">>, <<"f", "a", "l", "s", "e">>,
     <<"#", "!">>}

CoreAlphabet ==
    {<<"a">>, <<"1">>, <<"'">>, <<"\n">>, <<BackQuote>>, <<"=">>, <<",">>,
     <<")">>}

\* the runes that open a string literal, an escape, a comment or a two-rune
\* operator, and those that end them
LiveAlphabet ==
    {<<"a">>, <<"1">>, <<"'">>, <<"\\">>, <<BackQuote>>, <<"\n">>, <<":">>,
     <<"=">>, <<">">>, <<")">>}

RECURSIVE Words(_, _)
Words(A, n) ==
    IF n = 0 THEN {<<>>}
    ELSE LET W == Words(A, n - 1)
         IN  W \cup {w \o c : w \in W, c \in A}

\* f := (x) => x + 1
ScenarioD ==
    <<"f", " ", ":", "=", " ", "(", "x", ")", " ", "=", ">", " ",
      "x", " ", "+", " ", "1">>

\* n :: { 1 -> 'a' 2 -> 'b' }
ScenarioE ==
    <<"n", " ", ":", ":", " ", "{", " ", "1", " ", "-", ">", " ",
      "'", "a", "'", " ", "2", " ", "-", ">", " ", "'", "b", "'", " ", "}">>

\* a_b
ScenarioUnderscore == <<"a", "_", "b">>

\* 1a 1.50, a newline, x
ScenarioBadNumber == <<"1", "a", " ", "1", ".", "5", "0", "\n", "x">>

\* a, a block comment that holds x, b
ScenarioBlockComment == <<"a", BackQuote, "x", BackQuote, "b">>

\* 'hi\n', the backslash and the n two runes
ScenarioC == <<"'", "h", "i", "\\", "n", "'">>

\* a string literal of an escaped quote, an escaped backtick, an escaped
\* backslash and a newline, then a block comment that holds a quote, then x
ScenarioEscapes ==
    <<"'", "\\", "'", "\\", BackQuote, "\\", "\\", "\n", "'",
      BackQuote, "a", "'", BackQuote, "x">>

\* 1.2.3
ScenarioPoints == <<"1", ".", "2", ".", "3">>

\* .5
ScenarioPointFirst == <<".", "5">>

Scenarios ==
    {ScenarioD, ScenarioE, ScenarioUnderscore, ScenarioBadNumber,
     ScenarioBlockComment, ScenarioC, ScenarioEscapes, ScenarioPoints,
     ScenarioPointFirst,
     <<"a", "'", "x", "'">>,
     <<"a", "b", "'", "\n", "'">>,
     <<"f", "a", "l", "s", "e", " ", "t", "r", "u", "e", "\n">>,
     <<"a", "-", "1", " ", "-", ">", "[", "1", "]">>}

\* #!/usr/bin/env ink, a newline, x
ScenarioG ==
    <<"#", "!", "/", "u", "s", "r", "/", "b", "i", "n", "/", "e", "n", "v",
      " ", "i", "n", "k", "\n", "x">>

\* inputs whose first two bytes are #!
\* two lines that both begin with #!
ScenarioTwoShebangs == <<"#", "!", "a", "\n", "#", "!", "b", "\n", "x">>

ShebangInputs ==
    {<<"#", "!">> \o w : w \in Words(CoreAlphabet, MaxCoreChunks - 1)}
        \cup {ScenarioG, ScenarioTwoShebangs}

Inputs ==
    Words(Alphabet, MaxChunks) \cup Words(CoreAlphabet, MaxCoreChunks)
        \cup ShebangInputs \cup Scenarios

LiveInputs == Words(LiveAlphabet, MaxLiveChunks) \cup Scenarios

-----------------------------------------------------------------------------
(* The specification *)

InitFrom(S) ==
    /\ input \in S
    /\ fatalError \in BOOLEAN
    /\ pc = Entry(input, fatalError).pc
    /\ pos = Entry(input, fatalError).pos
    /\ buf = Entry(input, fatalError).buf
    /\ strbuf = Entry(input, fatalError).strbuf
    /\ strbufStartLine = Entry(input, fatalError).strbufStartLine
    /\ strbufStartCol = Entry(input, fatalError).strbufStartCol
    /\ lastKind = Entry(input, fatalError).lastKind
    /\ lineNo = Entry(input, fatalError).lineNo
    /\ colNo = Entry(input, fatalError).colNo
    /\ inStringLiteral = Entry(input, fatalError).inStringLiteral
    /\ emitted = Entry(input, fatalError).emitted
    /\ closes = Entry(input, fatalError).closes
    /\ diag = Entry(input, fatalError).diag
    /\ bufAt = Entry(input, fatalError).bufAt
    /\ strbufAt = Entry(input, fatalError).strbufAt
    /\ charAt = Entry(input, fatalError).charAt
    /\ prov = Entry(input, fatalError).prov
    /\ sent = 0

Init == InitFrom(Inputs)

LiveInit == InitFrom(LiveInputs)

\* every send of the last step has been received: the lexer is not blocked
\* in tokens <- tok
Unblocked == sent = Len(emitted)

\* the main loop has read a rune
AtRune == pc = "scan" /\ Unblocked /\ pos < Len(input)

\* the rune it has read, and the case of the switch that takes it
char == input[pos + 1]

AtCase(k) == AtRune /\ Case(Cur, char) = k

\* an iteration of the main loop whose switch runs case F
Body(F(_)) ==
    \E s0 \in {Fetch(Cur)} : \E s1 \in {F(s0)} : Step(EndIteration(s1))

\* Peek(2), and the shebang line skipped
Start == pc = "start" /\ \E s \in {Cur} : Step(shebang(s))

Quote ==
    AtCase("quote") /\ Body(LAMBDA s : caseQuote(s))

InString ==
    AtCase("string") /\ Body(LAMBDA s : caseInString(s, char))

Backtick ==
    AtCase("backtick") /\ Body(LAMBDA s : caseBacktick(s))

Newline ==
    AtCase("newline") /\ Body(LAMBDA s : caseNewline(s))

Space ==
    AtCase("space") /\ Body(LAMBDA s : caseSpace(s))

Single ==
    AtCase("single") /\ Body(LAMBDA s : caseSingle(s, char))

Dot ==
    AtCase("dot") /\ Body(LAMBDA s : caseDot(s))

Colon ==
    AtCase("colon") /\ Body(LAMBDA s : caseColon(s))

Equal ==
    AtCase("equal") /\ Body(LAMBDA s : caseEqual(s))

Minus ==
    AtCase("minus") /\ Body(LAMBDA s : caseMinus(s))

Open ==
    AtCase("open") /\ Body(LAMBDA s : caseOpen(s, char))

Close ==
    AtCase("close") /\ Body(LAMBDA s : caseClose(s, char))

Default ==
    AtCase("default") /\ Body(LAMBDA s : caseDefault(s, char))

\* ReadRune fails: the loop is left and the final ensureSeparator() runs
Eof ==
    /\ pc = "scan" /\ Unblocked /\ pos = Len(input)
    /\ \E s \in {Cur} : Step(finalSeparator(s))

\* Tokenize returns: the deferred close(tokens)
Return ==
    /\ pc = "closing" /\ Unblocked
    /\ \E s \in {Cur} : Step(deferClose(s))

\* the consumer receives the token the lexer is blocked on
Receive ==
    /\ pc # "exit"
    /\ sent < Len(emitted)
    /\ sent' = sent + 1
    /\ UNCHANGED <<input, fatalError, pc, pos, buf, strbuf, strbufStartLine,
                   strbufStartCol, lastKind, lineNo, colNo, inStringLiteral,
                   emitted, closes, diag, bufAt, strbufAt, charAt, prov>>

Lexer ==
    \/ Start
    \/ Quote
    \/ InString
    \/ Backtick
    \/ Newline
    \/ Space
    \/ Single
    \/ Dot
    \/ Colon
    \/ Equal
    \/ Minus
    \/ Open
    \/ Close
    \/ Default
    \/ Eof
    \/ Return

Next == Lexer \/ Receive

Spec == Init /\ [][Next]_vars

\* the goroutine running Tokenize is scheduled while it can take a step, and
\* the consumer keeps receiving
FairSpec == LiveInit /\ [][Next]_vars /\ WF_vars(Lexer) /\ WF_vars(Receive)

-----------------------------------------------------------------------------
(* Helpers of the properties *)

\* the tokens emitted by the step being taken
NewTokens == SubSeq(emitted', Len(emitted) + 1, Len(emitted'))

NewProv == SubSeq(prov', Len(prov) + 1, Len(prov'))

\* emitted[i] and emitted[i + 1] exist
Adjacent == 1..(Len(emitted) - 1)

\* emitted[i] is a Separator built by ensureSeparator, not one written ","
Synthesized(i) ==
    emitted[i].kind = "Separator" /\ prov[i].via = "ensureSeparator"

\* emitted[i] is the Separator of a "," rune
Written(i) ==
    /\ emitted[i].kind = "Separator"
    /\ prov[i].via = "char"
    /\ input[prov[i].at] = ","

\* the 1-based line and column of input[i]
LineOf(i) == 1 + Cardinality({j \in 1..(i - 1) : input[j] = "\n"})

ColOf(i) ==
    LET before == {j \in 1..(i - 1) : input[j] = "\n"}
    IN  IF before = {} THEN i
        ELSE i - (CHOOSE j \in before : \A k \in before : k <= j)

\* position p is not after position q
PosLeq(p, q) == p.line < q.line \/ (p.line = q.line /\ p.col <= q.col)

\* kind and payload of the emitted tokens
Stream ==
    [i \in 1..Len(emitted) |->
        <<emitted[i].kind, emitted[i].str, emitted[i].num>>]

Id(str) == <<"Identifier", str, Zero>>

Num(m, e) == <<"NumberLiteral", <<>>, Float(m, e)>>

Str(str) == <<"StringLiteral", str, Zero>>

Op(kind) == <<kind, <<>>, Zero>>

\* how many members of seq satisfy P
Count(seq, P(_)) == Cardinality({i \in 1..Len(seq) : P(seq[i])})

\* the last rune read was inside a string literal, an escape, or a comment
\* or two-rune operator whose second rune the reader failed to give
EndsInString == inStringLiteral /\ pos = Len(input) /\ Len(input) > 0

-----------------------------------------------------------------------------
(* C1 *)

\* the sink is closed exactly once, after every emitted token was received,
\* and the closing step emits nothing: the stream ends with the tokens of
\* the final ensureSeparator, each a flushed accumulator or a Separator
ClosedOnceAfterAllSent ==
    /\ [](pc = "done" => closes = 1 /\ sent = Len(emitted))
    /\ [](closes <= 1)
    /\ [][closes' # closes => sent = Len(emitted) /\ emitted' = emitted]_vars
    /\ [][pc = "scan" /\ pc' = "closing" =>
            \A i \in 1..Len(NewProv) :
                NewProv[i].via \in {"commitClear", "ensureSeparator"}]_vars
    /\ [](\A i \in 1..Len(emitted) : emitted[i].kind \in Kinds)

\* C1 as stated: for every finite input and a consumer that keeps receiving,
\* Tokenize eventually returns; the sink is then closed exactly once, every
\* emitted token was sent before the close, and no sentinel token is sent.
C1_AlwaysReturns == <>(pc = "done") /\ ClosedOnceAfterAllSent

\* C1, amended: Tokenize eventually returns unless fatalError is set and a
\* number fails to parse, when the fatal log path ends the process; when it
\* returns, the sink was closed exactly once, every emitted token was sent
\* before the close, and no sentinel token was sent.
C1_ReturnsUnlessFatal ==
    /\ <>(pc = "done" \/ pc = "exit")
    /\ [](pc = "exit" =>
            /\ fatalError
            /\ diag # <<>>
            /\ diag[Len(diag)].path = "fatal")
    /\ ClosedOnceAfterAllSent

\* Tokenize has returned on an input that ended inside a string literal,
\* after it flushed the accumulator and a Separator
C1_Witness ==
    /\ pc = "done" /\ closes = 1 /\ EndsInString
    /\ sent = Len(emitted) /\ Len(emitted) >= 2

-----------------------------------------------------------------------------
(* C2 *)

\* C2 as stated: the emitted stream never contains two Separator tokens in a
\* row, whether written "," or synthesized by ensureSeparator.
C2_NoTwoSeparators ==
    \A i \in Adjacent :
        ~(emitted[i].kind = "Separator" /\ emitted[i + 1].kind = "Separator")

\* C2, amended: a Separator that directly follows a Separator is always one
\* written ","; ensureSeparator never synthesizes a Separator after a
\* Separator.
C2_NoSynthesizedAfterSeparator ==
    \A i \in Adjacent :
        emitted[i].kind = "Separator" /\ emitted[i + 1].kind = "Separator"
            => Written(i + 1) /\ ~Synthesized(i + 1)

\* a newline was dispatched right after a Separator and added nothing
C2_Witness ==
    /\ pc = "scan" /\ ~inStringLiteral
    /\ pos > 0 /\ charAt = pos /\ input[pos] = "\n"
    /\ Len(emitted) >= 1
    /\ emitted[Len(emitted)].kind = "Separator"
    /\ prov[Len(emitted)].at = pos - 1

-----------------------------------------------------------------------------
(* C3 *)

\* the continuation set as the claim lists it
C3_Set ==
    {"Separator", "LeftParen", "LeftBracket", "LeftBrace", "AddOp",
     "SubtractOp", "MultiplyOp", "DivideOp", "ModulusOp", "NegationOp",
     "GreaterThanOp", "LessThanOp", "EqualOp", "DefineOp", "AccessorOp",
     "KeyValueSeparator", "FunctionArrow", "MatchColon", "CaseArrow"}

\* C3 as stated: the token emitted immediately after a token of the
\* continuation set is never a Separator.
C3_NoSeparatorAfterContinuation ==
    \A i \in Adjacent :
        emitted[i].kind \in C3_Set => emitted[i + 1].kind # "Separator"

\* C3, amended: the token emitted immediately after a token of the
\* continuation set is never a Separator synthesized by ensureSeparator; a
\* Separator there is always one written ",".
C3_NoSynthesizedAfterContinuation ==
    \A i \in Adjacent :
        emitted[i].kind \in C3_Set /\ emitted[i + 1].kind = "Separator"
            => Written(i + 1) /\ ~Synthesized(i + 1)

\* a closing bracket was dispatched right after an operator of the
\* continuation set, and the bracket token follows the operator directly
C3_Witness ==
    /\ Len(emitted) >= 2
    /\ emitted[Len(emitted)].kind = "RightParen"
    /\ emitted[Len(emitted) - 1].kind \in C3_Set \ {"Separator"}
    /\ prov[Len(emitted)].at = prov[Len(emitted) - 1].at + 1

-----------------------------------------------------------------------------
(* C4 *)

\* C4 as stated: tokens are emitted in nondecreasing (line, col) order, an
\* identifier or number flushed when a string literal closes included.
C4_NondecreasingPositions ==
    \A i \in Adjacent : PosLeq(emitted[i], emitted[i + 1])

-----------------------------------------------------------------------------
(* C5 *)

\* C5 as stated: the (line, col) of every token produced from runes of the
\* input is the 1-based line and column of the first rune of that token.
C5_PositionOfFirstRune ==
    \A i \in 1..Len(emitted) :
        emitted[i].kind # "Separator" =>
            /\ emitted[i].line = LineOf(prov[i].at)
            /\ emitted[i].col = ColOf(prov[i].at)

-----------------------------------------------------------------------------
(* C6 *)

\* C6: whenever the accumulator is committed holding exactly the runes true
\* (false), the token emitted for it is TrueLiteral (FalseLiteral), and no
\* Identifier token with str true or false is ever emitted.
C6_TrueFalseNeverIdentifier ==
    \A i \in 1..Len(emitted) :
        /\ emitted[i].kind = "Identifier" =>
               /\ emitted[i].str # <<"t", "r", "u", "e">>
               /\ emitted[i].str # <<"f", "a", "l", "s", "e">>
        /\ prov[i].via = "commitClear" /\ prov[i].text = <<"t", "r", "u", "e">>
               => emitted[i].kind = "TrueLiteral"
        /\ prov[i].via = "commitClear"
               /\ prov[i].text = <<"f", "a", "l", "s", "e">>
               => emitted[i].kind = "FalseLiteral"

\* both words were committed, and a literal was emitted for each
C6_Witness ==
    /\ \E i \in 1..Len(emitted) :
           /\ prov[i].text = <<"t", "r", "u", "e">>
           /\ emitted[i].kind = "TrueLiteral"
    /\ \E i \in 1..Len(emitted) :
           /\ prov[i].text = <<"f", "a", "l", "s", "e">>
           /\ emitted[i].kind = "FalseLiteral"

-----------------------------------------------------------------------------
(* C7 *)

\* the main loop has read an underscore outside a string literal (a comment
\* and the shebang line are consumed inside one step, so the main loop never
\* reads a rune of theirs)
C7_AtUnderscore == AtRune /\ ~inStringLiteral /\ char = "_"

C7_IsEmptyIdentifier(tok) == tok.kind = "EmptyIdentifier"

C7_IsUnderscore(c) == c = "_"

\* the input has no string literal, comment or shebang line
C7_Plain ==
    /\ \A i \in 1..Len(input) : input[i] \notin {"'", BackQuote}
    /\ ~(Len(input) >= 2 /\ input[1] = "#" /\ input[2] = "!")

\* C7: every underscore read outside a string literal and a comment produces
\* exactly one EmptyIdentifier token and splits the surrounding name (a_b
\* gives Identifier a, EmptyIdentifier, Identifier b), nothing else produces
\* an EmptyIdentifier, and no Identifier has a str that contains an
\* underscore.  (A step in which the fatal log path ends the process emits
\* nothing.)
C7_UnderscoreIsEmptyIdentifier ==
    /\ [](\A i \in 1..Len(emitted) :
            emitted[i].kind = "Identifier" =>
                \A j \in 1..Len(emitted[i].str) : emitted[i].str[j] # "_")
    /\ [][C7_AtUnderscore /\ pc' # "exit" =>
            /\ buf' = <<>>
            /\ Count(NewTokens, C7_IsEmptyIdentifier) = 1
            /\ NewTokens[Len(NewTokens)].kind = "EmptyIdentifier"
            /\ NewProv[Len(NewProv)].at = pos + 1]_vars
    /\ [][~C7_AtUnderscore =>
            Count(NewTokens, C7_IsEmptyIdentifier) = 0]_vars
    /\ [](pc = "done" /\ C7_Plain =>
            Count(emitted, C7_IsEmptyIdentifier)
                = Count(input, C7_IsUnderscore))
    /\ [](pc = "done" /\ input = ScenarioUnderscore =>
            Stream = <<Id(<<"a">>), Op("EmptyIdentifier"), Id(<<"b">>),
                       Op("Separator")>>)

\* a_b was tokenized to its end
C7_Witness ==
    /\ pc = "done" /\ input = ScenarioUnderscore
    /\ Count(emitted, C7_IsEmptyIdentifier) = 1

-----------------------------------------------------------------------------
(* C8 *)

\* a text that begins with a decimal digit and is no number: the accumulator
\* holds at most one ".", so such a text holds a rune that is neither a
\* digit nor "."
C8_Malformed(text) ==
    /\ text # <<>>
    /\ text[1] \in Digits
    /\ \E i \in 1..Len(text) : text[i] \notin Digits \cup {"."}

\* a well-formed number of as many bytes as text
C8_WellFormed(text) == [i \in 1..len(text) |-> "0"]

C8_FromMalformed(i) ==
    prov[i].via = "commitClear" /\ C8_Malformed(prov[i].text)

\* what the scan goes on from after the accumulator of s is committed, and
\* the token emitted for it but for its num
C8_After(s) ==
    LET r == commitClear(s)
        n == Len(r.emitted)
    IN  [pc |-> r.pc, pos |-> r.pos, buf |-> r.buf, lastKind |-> r.lastKind,
         lineNo |-> r.lineNo, colNo |-> r.colNo,
         inStringLiteral |-> r.inStringLiteral,
         new |-> [i \in (Len(s.emitted) + 1)..n |->
                     [kind |-> r.emitted[i].kind, str |-> r.emitted[i].str,
                      line |-> r.emitted[i].line, col |-> r.emitted[i].col]]]

\* the tokens toks, the num of the i-th left out
C8_ButNum(toks, i) == [toks EXCEPT ![i].num = Zero]

\* ScenarioBadNumber with 11 for 1a
C8_GoodNumber == <<"1", "1", " ", "1", ".", "5", "0", "\n", "x">>

-----------------------------------------------------------------------------
(* C9 *)

\* C9 as stated: f := (x) => x + 1 gives Identifier f, DefineOp, LeftParen,
\* Identifier x, RightParen, Separator, FunctionArrow, Identifier x, AddOp,
\* NumberLiteral 1, Separator.
C9_StreamAsStated ==
    pc = "done" /\ input = ScenarioD =>
        Stream = <<Id(<<"f">>), Op("DefineOp"), Op("LeftParen"), Id(<<"x">>),
                   Op("RightParen"), Op("Separator"), Op("FunctionArrow"),
                   Id(<<"x">>), Op("AddOp"), Num(1, 0), Op("Separator")>>

\* C9, amended: the Separator comes before the RightParen: Identifier f,
\* DefineOp, LeftParen, Identifier x, Separator, RightParen, FunctionArrow,
\* Identifier x, AddOp, NumberLiteral 1, Separator.
C9_StreamOfCode ==
    pc = "done" /\ input = ScenarioD =>
        Stream = <<Id(<<"f">>), Op("DefineOp"), Op("LeftParen"), Id(<<"x">>),
                   Op("Separator"), Op("RightParen"), Op("FunctionArrow"),
                   Id(<<"x">>), Op("AddOp"), Num(1, 0), Op("Separator")>>

\* f := (x) => x + 1 was tokenized to its end
C9_Witness == pc = "done" /\ input = ScenarioD /\ Len(emitted) = 11

-----------------------------------------------------------------------------
(* C10 *)

\* C10 as stated: n :: { 1 -> 'a' 2 -> 'b' } gives Identifier n, MatchColon,
\* LeftBrace, NumberLiteral 1, CaseArrow, StringLiteral a, Separator,
\* NumberLiteral 2, CaseArrow, StringLiteral b, Separator, RightBrace,
\* Separator.
C10_StreamAsStated ==
    pc = "done" /\ input = ScenarioE =>
        Stream = <<Id(<<"n">>), Op("MatchColon"), Op("LeftBrace"), Num(1, 0),
                   Op("CaseArrow"), Str(<<"a">>), Op("Separator"), Num(2, 0),
                   Op("CaseArrow"), Str(<<"b">>), Op("Separator"),
                   Op("RightBrace"), Op("Separator")>>

\* C10, amended: no Separator stands between StringLiteral a and
\* NumberLiteral 2, which only a space separates: Identifier n, MatchColon,
\* LeftBrace, NumberLiteral 1, CaseArrow, StringLiteral a, NumberLiteral 2,
\* CaseArrow, StringLiteral b, Separator, RightBrace, Separator.
C10_StreamOfCode ==
    pc = "done" /\ input = ScenarioE =>
        Stream = <<Id(<<"n">>), Op("MatchColon"), Op("LeftBrace"), Num(1, 0),
                   Op("CaseArrow"), Str(<<"a">>), Num(2, 0),
                   Op("CaseArrow"), Str(<<"b">>), Op("Separator"),
                   Op("RightBrace"), Op("Separator")>>

\* n :: { 1 -> 'a' 2 -> 'b' } was tokenized to its end
C10_Witness == pc = "done" /\ input = ScenarioE /\ Len(emitted) = 12

-----------------------------------------------------------------------------
(* C11 *)

\* the index in the input of the newline that ends the first line, 0 when
\* the first line is not terminated
C11_FirstNewline ==
    IF \E i \in 1..Len(input) : input[i] = "\n"
    THEN CHOOSE i \in 1..Len(input) :
             input[i] = "\n" /\ \A j \in 1..(i - 1) : input[j] # "\n"
    ELSE 0

\* the input with its first line removed, through its newline
C11_Rest == SubSeq(input, C11_FirstNewline + 1, Len(input))

\* the tokens toks, each one line further down
C11_LineDown(toks) ==
    [i \in 1..Len(toks) |-> [toks[i] EXCEPT !.line = @ + 1]]

\* the rest begins with #! itself
C11_RestIsShebang ==
    Len(C11_Rest) >= 2 /\ C11_Rest[1] = "#" /\ C11_Rest[2] = "!"

\* no token is produced from the first line, every token lies on a later
\* line, and no token at all is emitted when the first line is not
\* terminated by a newline
C11_FirstLineSilent ==
    /\ \A i \in 1..Len(emitted) :
           /\ prov[i].via # "ensureSeparator" => prov[i].at > C11_FirstNewline
           /\ emitted[i].line >= 2
    /\ C11_FirstNewline = 0 => emitted = <<>>

\* C11 as stated: for an input whose first two bytes are #!, no token is
\* produced from the first line, and the emitted stream equals the stream
\* produced for the input with its first line removed, except that every
\* line number is greater by one; if the first line is not terminated by a
\* newline, no token at all is emitted.
C11_EqualsRestAsStated ==
    IsShebang(Cur) =>
        /\ C11_FirstLineSilent
        /\ pc \in {"done", "exit"} /\ C11_FirstNewline > 0 =>
               emitted = C11_LineDown(Run(C11_Rest, fatalError).emitted)

\* C11, amended: the stream equals the one produced for the rest unless the
\* rest begins with #! itself; the second line is then tokenized as any
\* other text, by the main loop started on the rest, and not skipped.
C11_ShebangLineSkipped ==
    IsShebang(Cur) =>
        /\ C11_FirstLineSilent
        /\ pc \in {"done", "exit"} /\ C11_FirstNewline > 0 =>
               /\ ~C11_RestIsShebang =>
                      emitted
                          = C11_LineDown(Run(C11_Rest, fatalError).emitted)
               /\ C11_RestIsShebang =>
                      /\ emitted
                             = C11_LineDown(
                                   RunFrom([Entry(C11_Rest, fatalError)
                                               EXCEPT !.pc = "scan"]).emitted)
                      /\ emitted # <<>>
                      /\ prov[1].at = C11_FirstNewline + 1

\* an input with a shebang line and a string literal on the line after it
\* was tokenized to its end
C11_Witness ==
    /\ pc = "done" /\ IsShebang(Cur) /\ C11_FirstNewline > 0
    /\ \E i \in 1..Len(emitted) :
           /\ emitted[i].kind = "StringLiteral"
           /\ emitted[i].line = 2
           /\ prov[i].at > C11_FirstNewline

-----------------------------------------------------------------------------
(* C12 *)

\* the continuation set as the claim lists it
C12_Set ==
    {"Separator", "LeftParen", "LeftBracket", "LeftBrace", "AddOp",
     "SubtractOp", "MultiplyOp", "DivideOp", "ModulusOp", "NegationOp",
     "GreaterThanOp", "LessThanOp", "EqualOp", "DefineOp", "AccessorOp",
     "KeyValueSeparator", "FunctionArrow", "MatchColon", "CaseArrow"}

\* the main loop has read a newline or a closing bracket in normal mode
C12_AtCloser == AtCase("newline") \/ AtCase("close")

\* the kind of the most recently emitted token, Separator if none yet
C12_LastEmitted(toks) ==
    IF toks = <<>> THEN "Separator" ELSE toks[Len(toks)].kind

\* what the step emits: the token of the accumulator if there is one
\* pending, then a Separator if the most recently emitted token is then
\* outside the set, then the bracket if the rune is one
C12_Emits ==
    LET k       == IF buf = <<>> THEN 0 ELSE 1
        flushed == SubSeq(NewTokens, 1, k)
        sep     == C12_LastEmitted(emitted \o flushed) \notin C12_Set
        n       == IF sep THEN k + 1 ELSE k
        bracket == char \in {")", "]", "}"}
    IN  /\ Len(NewTokens) = IF bracket THEN n + 1 ELSE n
        /\ k = 1 =>
               /\ NewProv[1].via = "commitClear"
               /\ NewProv[1].text = buf
               /\ NewTokens[1].kind \in
                      {"Identifier", "NumberLiteral", "TrueLiteral",
                       "FalseLiteral"}
        /\ sep =>
               /\ NewTokens[n].kind = "Separator"
               /\ NewProv[n].via = "ensureSeparator"
        /\ bracket =>
               /\ NewTokens[n + 1].kind = CloseKind(char)
               /\ NewProv[n + 1].at = pos + 1
        /\ \A i \in 1..Len(NewTokens) :
               NewTokens[i].kind = "Separator" => sep /\ i = n
        /\ buf' = <<>>

\* C12: whenever a newline or a closing bracket is processed in normal mode,
\* the pending accumulator is first flushed, then a Separator is emitted if
\* and only if the kind of the most recently emitted token (Separator if
\* none yet) is not in the continuation set, and for a closing bracket the
\* bracket token is emitted immediately after, never before, that Separator.
\* (A step in which the fatal log path ends the process emits nothing.)
C12_SeparatorAtCloser ==
    [][C12_AtCloser /\ pc' # "exit" => C12_Emits]_vars

\* a closing bracket was dispatched with a name pending: the name, the
\* Separator and the bracket were emitted in this order
C12_Witness ==
    /\ pc = "scan" /\ pos > 0 /\ charAt = pos /\ input[pos] = ")"
    /\ ~inStringLiteral
    /\ Len(emitted) >= 3
    /\ prov[Len(emitted) - 2].via = "commitClear"
    /\ Synthesized(Len(emitted) - 1)
    /\ emitted[Len(emitted)].kind = "RightParen"

-----------------------------------------------------------------------------
(* C13 *)

\* the main loop has read a backtick in normal mode and the reader has a
\* rune after it: the step consumes a single-line or a block comment, and
\* the loops that consume it leave buf as it is now
C13_AtComment == AtCase("backtick") /\ pos + 1 < Len(input)

\* C13 as stated: in every reachable state of the scan, if the lexer is
\* inside a string literal or is consuming a single-line or block comment,
\* the accumulator buf is empty.
C13_BufEmptyInStringAndComment ==
    /\ pc = "scan" /\ inStringLiteral => buf = <<>>
    /\ C13_AtComment => buf = <<>>

-----------------------------------------------------------------------------
(* C14 *)

\* the index in the input of the backtick that ends the block comment whose
\* opening backtick the main loop has read, 0 when the comment is not
\* terminated
C14_CommentEnd ==
    LET later == {j \in (pos + 3)..Len(input) : input[j] = BackQuote}
    IN  IF later = {} THEN 0
        ELSE CHOOSE j \in later : \A k \in later : j <= k

\* the main loop has read, in normal mode, the opening backtick of a
\* terminated block comment
C14_AtBlockComment ==
    /\ AtCase("backtick")
    /\ pos + 2 <= Len(input)
    /\ input[pos + 2] # BackQuote
    /\ C14_CommentEnd > 0

\* the input with that comment replaced by a single space
C14_Spaced ==
    SubSeq(input, 1, pos) \o <<" ">>
        \o SubSeq(input, C14_CommentEnd + 1, Len(input))

\* kind and payload of the tokens toks
C14_Payloads(toks) ==
    [i \in 1..Len(toks) |-> <<toks[i].kind, toks[i].str, toks[i].num>>]

\* C14 as stated: a terminated block comment is treated as whitespace:
\* replacing it by a single space yields the same sequence of token kinds
\* and payloads, so that name or number runes directly before and after the
\* comment are emitted as two separate tokens.
C14_BlockCommentIsWhitespace ==
    C14_AtBlockComment =>
        C14_Payloads(Run(input, fatalError).emitted)
            = C14_Payloads(Run(C14_Spaced, fatalError).emitted)

-----------------------------------------------------------------------------
(* C15 *)

\* the newline runes between the two backticks of the block comment whose
\* opening backtick the main loop has read
C15_NewlinesInside ==
    Cardinality({j \in (pos + 2)..(C14_CommentEnd - 1) : input[j] = "\n"})

\* the state after the step that consumes that comment
C15_AfterComment == EndIteration(caseBacktick(Fetch(Cur)))

\* C15 as stated: after a terminated block comment that contains k newline
\* runes, wherever they stand between the two backticks, the line counter
\* has advanced by exactly k, so every token after the comment carries
\* line = 1 + the number of newline runes that precede it in the input.
C15_NewlinesInBlockCommentCounted ==
    C14_AtBlockComment =>
        /\ C15_AfterComment.pos = C14_CommentEnd
        /\ C15_AfterComment.lineNo = lineNo + C15_NewlinesInside
        /\ LET r == Run(input, fatalError)
           IN  \A i \in 1..Len(r.emitted) :
                   r.prov[i].at > C14_CommentEnd =>
                       r.emitted[i].line = LineOf(r.prov[i].at)

-----------------------------------------------------------------------------
(* C16 *)

\* the main loop has read =, - or : in normal mode
C16_AtOperator == AtCase("equal") \/ AtCase("minus") \/ AtCase("colon")

\* the rune after it, NoRune when it is the last rune of the input
C16_NextRune == IF pos + 2 <= Len(input) THEN input[pos + 2] ELSE NoRune

\* the operator the claim gives for the rune and the rune after it
C16_Operator ==
    CASE char = "=" ->
             IF C16_NextRune = ">" THEN "FunctionArrow" ELSE "EqualOp"
      [] char = "-" ->
             IF C16_NextRune = ">" THEN "CaseArrow" ELSE "SubtractOp"
      [] char = ":" ->
             IF C16_NextRune = "=" THEN "DefineOp"
             ELSE IF C16_NextRune = ":" THEN "MatchColon"
             ELSE "KeyValueSeparator"

C16_TwoRunes ==
    C16_Operator \in {"FunctionArrow", "CaseArrow", "DefineOp", "MatchColon"}

C16_Operators ==
    {"EqualOp", "FunctionArrow", "SubtractOp", "CaseArrow", "DefineOp",
     "MatchColon", "KeyValueSeparator"}

\* the state after the iteration that dispatches the rune
C16_After == EndIteration(Switch(Fetch(Cur), char))

\* C16 as stated: every =, - and : read in normal mode yields exactly one
\* operator token chosen by the next rune, EqualOp, SubtractOp and
\* KeyValueSeparator being chosen in every other case, the rune being the
\* last rune of the input included; a lookahead rune that does not complete
\* a two-rune operator is pushed back and dispatched next.  (A step in
\* which the fatal log path ends the process emits nothing.)
C16_OneOperatorByNextRune ==
    C16_AtOperator /\ C16_After.pc # "exit" =>
        LET new == SubSeq(C16_After.emitted, Len(emitted) + 1,
                          Len(C16_After.emitted))
        IN  /\ Cardinality({i \in 1..Len(new) :
                               new[i].kind \in C16_Operators}) = 1
            /\ new # <<>> /\ new[Len(new)].kind = C16_Operator
            /\ C16_After.pos = IF C16_TwoRunes THEN pos + 2 ELSE pos + 1
            /\ C16_After.buf = <<>>
            /\ C16_After.inStringLiteral = FALSE

-----------------------------------------------------------------------------
(* C17 *)

\* the main loop has read a backslash inside a string literal and the reader
\* has a rune after it
C17_AtEscape ==
    AtRune /\ inStringLiteral /\ char = "\\" /\ pos + 2 <= Len(input)

\* C17: inStringLiteral changes value only when the main loop dispatches a
\* single quote, and every quote it dispatches changes it; inside a string
\* literal a backslash followed by any rune c appends c verbatim to the
\* string and leaves inStringLiteral set, c not being dispatched; no other
\* rune changes it, and a quote inside a comment or the shebang line does
\* not open a string.  Consequently 'hi\n' yields StringLiteral hin, then
\* Separator.
C17_QuoteAloneToggles ==
    /\ [][inStringLiteral' # inStringLiteral => AtRune /\ char = "'"]_vars
    /\ [][AtRune /\ char = "'" =>
            /\ inStringLiteral' = ~inStringLiteral
            /\ pos' = pos + 1]_vars
    /\ [][C17_AtEscape =>
            /\ strbuf' = Append(strbuf, input[pos + 2])
            /\ inStringLiteral'
            /\ pos' = pos + 2
            /\ emitted' = emitted]_vars
    /\ [][AtRune /\ inStringLiteral /\ char \notin {"'", "\\"} =>
            /\ strbuf' = Append(strbuf, char)
            /\ inStringLiteral'
            /\ pos' = pos + 1
            /\ emitted' = emitted]_vars
    /\ [](pc = "done" /\ input = ScenarioC =>
            Stream = <<Str(<<"h", "i", "n">>), Op("Separator")>>)
    /\ [](pc = "done" /\ input = ScenarioEscapes =>
            Stream = <<Str(<<"'", BackQuote, "\\", "\n">>), Id(<<"x">>),
                       Op("Separator")>>)

\* an escaped quote was appended to the string, which is still open
C17_Witness ==
    /\ pc = "scan" /\ inStringLiteral
    /\ pos >= 3 /\ charAt = pos - 1
    /\ input[charAt] = "\\" /\ input[pos] = "'"
    /\ strbuf # <<>> /\ strbuf[Len(strbuf)] = "'"

-----------------------------------------------------------------------------
(* C18 *)

\* the accumulator is one or more digits only, the decimal digits of every
\* script counted
C18_AllDigits(text) ==
    text # <<>> /\ \A i \in 1..Len(text) : text[i] \in Digits \cup {ArabicDigit}

\* the points of a text
C18_Points(text) == {i \in 1..Len(text) : text[i] = "."}

\* C18: when a point is read in normal mode, if the accumulator is empty or
\* contains any rune that is no digit (an earlier point included), the
\* accumulator is flushed and an AccessorOp is emitted; otherwise the point
\* is appended to the accumulator and no token is emitted.  Hence a number
\* token contains at most one point, 1.2.3 yields NumberLiteral 1.2,
\* AccessorOp, NumberLiteral 3, and .5 yields AccessorOp, NumberLiteral 5.
\* (A step in which the fatal log path ends the process emits nothing.)
C18_PointIsAccessorOrFraction ==
    /\ [][AtCase("dot") /\ ~C18_AllDigits(buf) /\ pc' # "exit" =>
            /\ buf' = <<>>
            /\ Len(NewTokens) = IF buf = <<>> THEN 1 ELSE 2
            /\ buf # <<>> =>
                   NewProv[1].via = "commitClear" /\ NewProv[1].text = buf
            /\ NewTokens[Len(NewTokens)].kind = "AccessorOp"
            /\ NewProv[Len(NewProv)].at = pos + 1]_vars
    /\ [][AtCase("dot") /\ C18_AllDigits(buf) =>
            /\ buf' = Append(buf, ".")
            /\ emitted' = emitted]_vars
    /\ [](Cardinality(C18_Points(buf)) <= 1)
    /\ [](\A i \in 1..Len(emitted) :
            emitted[i].kind = "NumberLiteral" =>
                Cardinality(C18_Points(prov[i].text)) <= 1)
    /\ [](pc = "done" /\ input = ScenarioPoints =>
            Stream = <<Num(12, 1), Op("AccessorOp"), Num(3, 0),
                       Op("Separator")>>)
    /\ [](pc = "done" /\ input = ScenarioPointFirst =>
            Stream = <<Op("AccessorOp"), Num(5, 0), Op("Separator")>>)

\* 1.2.3 was tokenized to its end: the first point went into the number,
\* the second one became an AccessorOp
C18_Witness ==
    /\ pc = "done" /\ input = ScenarioPoints
    /\ Len(emitted) = 4
    /\ prov[1].text = <<"1", ".", "2">>
    /\ emitted[2].kind = "AccessorOp"

-----------------------------------------------------------------------------
(* C19 *)

\* the continuation set as the claim lists it
C19_Set ==
    {"Separator", "LeftParen", "LeftBracket", "LeftBrace", "AddOp",
     "SubtractOp", "MultiplyOp", "DivideOp", "ModulusOp", "NegationOp",
     "GreaterThanOp", "LessThanOp", "EqualOp", "DefineOp", "AccessorOp",
     "KeyValueSeparator", "FunctionArrow", "MatchColon", "CaseArrow"}

\* the emitted tokens that stand for runes of the input: all but the
\* Separators of ensureSeparator
C19_Real == {i \in 1..Len(emitted) : ~Synthesized(i)}

\* the last of them
C19_LastReal == CHOOSE i \in C19_Real : \A j \in C19_Real : j <= i

\* C19: when Tokenize returns after normal end of input the accumulator is
\* empty, any trailing identifier, number, true or false having been
\* emitted; if a token was emitted, the last one is a Separator or another
\* kind of the continuation set; and a stream whose last real token is
\* outside that set ends with exactly one terminating Separator.
C19_EndsFlushedAndSeparated ==
    /\ [][pc = "scan" /\ pc' = "closing" /\ buf # <<>> =>
            /\ NewProv[1].via = "commitClear"
            /\ NewProv[1].text = buf]_vars
    /\ [](pc \in {"closing", "done"} =>
            /\ buf = <<>>
            /\ emitted # <<>> => emitted[Len(emitted)].kind \in C19_Set
            /\ C19_Real # {} /\ emitted[C19_LastReal].kind \notin C19_Set =>
                   /\ C19_LastReal = Len(emitted) - 1
                   /\ emitted[Len(emitted)].kind = "Separator")

\* Tokenize has returned on an input that ends with a name: the name was
\* flushed by the final ensureSeparator and one Separator follows it
C19_Witness ==
    /\ pc = "done" /\ input # <<>> /\ input[Len(input)] = "a"
    /\ ~inStringLiteral
    /\ Len(emitted) >= 2
    /\ emitted[Len(emitted) - 1].kind = "Identifier"
    /\ Synthesized(Len(emitted))

-----------------------------------------------------------------------------
(* C20 *)

\* the runes the claim keeps out of an Identifier: white space, quote,
\* backtick, brackets, comma, point and the operator runes
C20_Excluded ==
    {" ", "\t", "\r", "\n", "'", BackQuote, "(", ")", "[", "]", "{", "}",
     ",", ".", "~", "+", "*", "/", "%", "&", "|", "^", "<", ">", ":", "=",
     "-"}

\* C20 as stated: every emitted Identifier has a non-empty str that does
\* not begin with a decimal digit (read here as a digit 0 to 9) and
\* contains no white space, quote, backtick, bracket, comma, point or
\* operator rune; every token of a kind other than Identifier and
\* StringLiteral has an empty str, and every token of a kind other than
\* NumberLiteral has num = 0.
C20_TokenFields ==
    \A i \in 1..Len(emitted) :
        /\ emitted[i].kind = "Identifier" =>
               /\ emitted[i].str # <<>>
               /\ emitted[i].str[1] \notin Digits
               /\ \A j \in 1..Len(emitted[i].str) :
                      emitted[i].str[j] \notin C20_Excluded
        /\ emitted[i].kind \notin {"Identifier", "StringLiteral"} =>
               emitted[i].str = <<>>
        /\ emitted[i].kind # "NumberLiteral" => emitted[i].num = Zero

====
